---- MODULE Spec2Model ----
(***************************************************************************)
(* Model of language/evm/move-to-yul/src/solidity_ty.rs: the Solidity ABI  *)
(* type algebra, its string parser and pretty printer, the signature       *)
(* parser, the head-size layout calculator, the default translation from   *)
(* Move types and the Move/Solidity compatibility check.                   *)
(*                                                                         *)
(* Rust strings are modelled as sequences of one-character strings, so     *)
(* that prefix tests, slicing, trimming, splitting and decimal conversion  *)
(* are computed character by character as the library routines do.         *)
(* Values of the Rust enums are tuples whose first component is the        *)
(* variant name.  anyhow::Result is <<"Ok", v>> or <<"Err", message>>; a   *)
(* panic is the value <<"Panic", message>>.                                *)
(***************************************************************************)
EXTENDS Integers, Sequences, FiniteSets, TLC

VARIABLES
    origin,      \* where the held value came from: "none", "parse",
                 \* "translate", "new", "parse_sig" or "default"
    last_op,     \* the last operation applied
    input,       \* the text given to parse or parse_into_solidity_signature
    source_ty,   \* the Move type given to translate_from_move
    held,        \* the SolidityType held: Ok(t), Ret(t), an error or a panic
    result,      \* the result of the last operation on the held value
    held_sig,    \* the SoliditySignature held: Ok(s), Ret(s), error or panic
    source_fun   \* the Move function whose default signature is held

vars ==
    <<origin, last_op, input, source_ty, held, result, held_sig, source_fun>>

(***************************************************************************)
(* Characters and the string routines of the Rust standard library that    *)
(* the source uses.                                                        *)
(***************************************************************************)

Digits == <<"0", "1", "2", "3", "4", "5", "6", "7", "8", "9">>

DigitSet == {Digits[i] : i \in 1..Len(Digits)}

\* char::to_digit(10)
DigitVal(c) == (CHOOSE i \in 1..Len(Digits) : Digits[i] = c) - 1

LowerLetters ==
    {"a", "b", "c", "d", "e", "f", "g", "h", "i", "j", "k", "l", "m",
     "n", "o", "p", "q", "r", "s", "t", "u", "v", "w", "x", "y", "z"}

UpperLetters ==
    {"A", "B", "C", "D", "E", "F", "G", "H", "I", "J", "K", "L", "M",
     "N", "O", "P", "Q", "R", "S", "T", "U", "V", "W", "X", "Y", "Z"}

\* [a-zA-Z_$]
IdentStart == LowerLetters \cup UpperLetters \cup {"_", "$"}

\* [a-zA-Z_$0-9]
IdentChar == IdentStart \cup DigitSet

\* char::is_whitespace, restricted to the ASCII white space the inputs use
WhiteSpace == {" ", "\t"}

\* str::starts_with
StartsWith(s, p) == Len(s) >= Len(p) /\ SubSeq(s, 1, Len(p)) = p

\* str::ends_with
EndsWith(s, p) ==
    Len(s) >= Len(p) /\ SubSeq(s, Len(s) - Len(p) + 1, Len(s)) = p

\* str::contains(char)
Contains(s, c) == \E i \in 1..Len(s) : s[i] = c

\* str::rfind(char): the 1-based position of the last occurrence, 0 for None
RFind(s, c) ==
    IF Contains(s, c)
    THEN CHOOSE i \in 1..Len(s) :
             s[i] = c /\ \A j \in (i + 1)..Len(s) : s[j] # c
    ELSE 0

\* str::find(char): the 1-based position of the first occurrence, 0 for None
Find(s, c) ==
    IF Contains(s, c)
    THEN CHOOSE i \in 1..Len(s) : s[i] = c /\ \A j \in 1..(i - 1) : s[j] # c
    ELSE 0

\* str::trim_start
TrimStart(s) ==
    IF \A i \in 1..Len(s) : s[i] \in WhiteSpace
    THEN <<>>
    ELSE LET k == CHOOSE i \in 1..Len(s) :
                      s[i] \notin WhiteSpace
                      /\ \A j \in 1..(i - 1) : s[j] \in WhiteSpace
         IN SubSeq(s, k, Len(s))

\* str::trim_end
TrimEnd(s) ==
    IF \A i \in 1..Len(s) : s[i] \in WhiteSpace
    THEN <<>>
    ELSE LET k == CHOOSE i \in 1..Len(s) :
                      s[i] \notin WhiteSpace
                      /\ \A j \in (i + 1)..Len(s) : s[j] \in WhiteSpace
         IN SubSeq(s, 1, k)

\* str::trim
Trim(s) == TrimEnd(TrimStart(s))

\* str::strip_prefix / str::strip_suffix: <<"Some", rest>> or <<"None">>
StripPrefix(s, p) ==
    IF StartsWith(s, p) THEN <<"Some", SubSeq(s, Len(p) + 1, Len(s))>>
    ELSE <<"None">>

StripSuffix(s, p) ==
    IF EndsWith(s, p) THEN <<"Some", SubSeq(s, 1, Len(s) - Len(p))>>
    ELSE <<"None">>

\* str::split(char): the pieces between the separators, empty pieces kept
RECURSIVE Split(_, _)
Split(s, c) ==
    IF ~Contains(s, c) THEN <<s>>
    ELSE LET k == Find(s, c)
         IN <<SubSeq(s, 1, k - 1)>> \o Split(SubSeq(s, k + 1, Len(s)), c)

\* str::split_whitespace: the maximal runs of non-white-space characters
RECURSIVE SplitWhitespace(_)
SplitWhitespace(s) ==
    LET t == TrimStart(s)
    IN IF t = <<>> THEN <<>>
       ELSE LET k == IF \E i \in 1..Len(t) : t[i] \in WhiteSpace
                     THEN CHOOSE i \in 1..Len(t) :
                              t[i] \in WhiteSpace
                              /\ \A j \in 1..(i - 1) : t[j] \notin WhiteSpace
                     ELSE Len(t) + 1
            IN <<SubSeq(t, 1, k - 1)>>
               \o SplitWhitespace(SubSeq(t, k, Len(t)))

\* [String]::join(sep)
RECURSIVE Join(_, _)
Join(parts, sep) ==
    IF parts = <<>> THEN <<>>
    ELSE IF Len(parts) = 1 THEN parts[1]
    ELSE parts[1] \o sep \o Join(Tail(parts), sep)

\* anyhow::Result and panics
Ok(v) == <<"Ok", v>>

Err(msg) == <<"Err", msg>>

Panic(msg) == <<"Panic", msg>>

IsOk(r) == r[1] = "Ok"

IsErr(r) == r[1] = "Err"

IsPanic(r) == r[1] = "Panic"

\* The value of a run of decimal digits
RECURSIVE DigitsValue(_)
DigitsValue(s) ==
    IF s = <<>> THEN 0
    ELSE 10 * DigitsValue(SubSeq(s, 1, Len(s) - 1)) + DigitVal(s[Len(s)])

\* <usize as FromStr>::from_str: an optional leading "+", then one or more
\* decimal digits.  The inputs of this model have at most four digits, so
\* the overflow error of the routine is out of their reach.
ParseUsize(s) ==
    LET body == IF Len(s) > 1 /\ s[1] = "+" THEN Tail(s) ELSE s
    IN IF body # <<>> /\ \A i \in 1..Len(body) : body[i] \in DigitSet
       THEN Ok(DigitsValue(body))
       ELSE Err("ParseIntError")

\* <usize as Display>::fmt: decimal, no sign, no leading zeros
RECURSIVE ToStr(_)
ToStr(n) ==
    IF n < 10 THEN <<Digits[n + 1]>>
    ELSE ToStr(n \div 10) \o <<Digits[(n % 10) + 1]>>

(***************************************************************************)
(* The type algebra: SolidityPrimitiveType, SolidityType and               *)
(* SignatureDataLocation.                                                  *)
(***************************************************************************)

Bool == <<"Bool">>

Uint(n) == <<"Uint", n>>

SInt(n) == <<"Int", n>>

Fixed(m, n) == <<"Fixed", m, n>>

Ufixed(m, n) == <<"Ufixed", m, n>>

Address(payable) == <<"Address", payable>>

Primitive(p) == <<"Primitive", p>>

Tuple(tys) == <<"Tuple", tys>>

DynamicArray(t) == <<"DynamicArray", t>>

StaticArray(t, n) == <<"StaticArray", t, n>>

SolidityString == <<"SolidityString">>

Bytes == <<"Bytes">>

BytesStatic(n) == <<"BytesStatic", n>>

Memory == "Memory"

\* The literals of the source text
S_bool == <<"b", "o", "o", "l">>

S_uint == <<"u", "i", "n", "t">>

S_int == <<"i", "n", "t">>

S_fixed == <<"f", "i", "x", "e", "d">>

S_ufixed == <<"u", "f", "i", "x", "e", "d">>

S_address == <<"a", "d", "d", "r", "e", "s", "s">>

S_payable == <<"p", "a", "y", "a", "b", "l", "e">>

S_bytes == <<"b", "y", "t", "e", "s">>

S_string == <<"s", "t", "r", "i", "n", "g">>

S_memory == <<"m", "e", "m", "o", "r", "y">>

S_calldata == <<"c", "a", "l", "l", "d", "a", "t", "a">>

S_returns == <<"r", "e", "t", "u", "r", "n", "s">>

PARSE_ERR_MSG == "error happens when parsing the signature"

PARSE_ERR_MSG_SIMPLE_TYPE == "error happens when parsing a simple type"

PARSE_ERR_MSG_ARRAY_TYPE == "error happens when parsing an array type"

PARSE_ERR_MSG_RETURN ==
    "error happens when parsing the return types in the signature"

\* impl fmt::Display for SignatureDataLocation
DisplayLocation(loc) == S_memory

\* DisplayPrimitive with the Ufixed arm writing the word of the Fixed arm
DisplayPrimitive_UfixedAsFixed(p) ==
    CASE p[1] = "Bool" -> S_bool
      [] p[1] = "Uint" -> S_uint \o ToStr(p[2])
      [] p[1] = "Int" -> S_int \o ToStr(p[2])
      [] p[1] = "Fixed" -> S_fixed \o ToStr(p[2]) \o <<"x">> \o ToStr(p[3])
      [] p[1] = "Ufixed" -> S_fixed \o ToStr(p[2]) \o <<"x">> \o ToStr(p[3])
      [] p[1] = "Address" -> S_address

\* impl fmt::Display for SolidityPrimitiveType
DisplayPrimitive(p) ==
    CASE p[1] = "Bool" -> S_bool
      [] p[1] = "Uint" -> S_uint \o ToStr(p[2])
      [] p[1] = "Int" -> S_int \o ToStr(p[2])
      [] p[1] = "Fixed" -> S_fixed \o ToStr(p[2]) \o <<"x">> \o ToStr(p[3])
      [] p[1] = "Ufixed" -> S_ufixed \o ToStr(p[2]) \o <<"x">> \o ToStr(p[3])
      [] p[1] = "Address" -> S_address

\* impl fmt::Display for SolidityType
RECURSIVE Display(_)
Display(t) ==
    CASE t[1] = "Primitive" -> DisplayPrimitive(t[2])
      [] t[1] = "Tuple" ->
           <<"(">>
           \o Join([i \in 1..Len(t[2]) |-> Display(t[2][i])], <<",">>)
           \o <<")">>
      [] t[1] = "DynamicArray" -> Display(t[2]) \o <<"[", "]">>
      [] t[1] = "StaticArray" ->
           Display(t[2]) \o <<"[">> \o ToStr(t[3]) \o <<"]">>
      [] t[1] = "SolidityString" -> S_string
      [] t[1] = "Bytes" -> S_bytes
      [] t[1] = "BytesStatic" -> S_bytes \o ToStr(t[2])

(***************************************************************************)
(* Range checks and the prefix test.                                       *)
(***************************************************************************)

\* const SIMPLE_TYPE_PREFIX
SIMPLE_TYPE_PREFIX ==
    {S_uint, S_int, S_ufixed, S_fixed, S_bool, S_address, S_bytes, S_string}

check_simple_type_prefix(ty_str) ==
    \E prefix \in SIMPLE_TYPE_PREFIX : StartsWith(ty_str, prefix)

\* check_type_int_range without the test for a multiple of 8
check_type_int_range_no_multiple_test(num) == num >= 8 /\ num <= 256

check_type_int_range(num) == num >= 8 /\ num <= 256 /\ num % 8 = 0

check_fixed_n_range(num) == num <= 80

\* check_static_bytes_range with the lower end of the range off by one
check_static_bytes_range_from_zero(num) == num >= 0 /\ num <= 32

check_static_bytes_range(num) == num >= 1 /\ num <= 32

(***************************************************************************)
(* SolidityType::parse_simple_type.  Each `if` block of the function is    *)
(* one operator: it returns a Result when the block returns, and           *)
(* FallThrough when control leaves the block and reaches the next `if`.    *)
(***************************************************************************)

FallThrough == <<"FallThrough">>

\* the tail of ty_str after a prefix of the given length
After(ty_str, prefix) == SubSeq(ty_str, Len(prefix) + 1, Len(ty_str))

parse_bool(ty_str) ==
    IF ty_str = S_bool THEN Ok(Primitive(Bool)) ELSE FallThrough

parse_uint(ty_str) ==
    IF StartsWith(ty_str, S_uint)
    THEN IF Len(ty_str) > Len(S_uint)
         THEN LET num == ParseUsize(After(ty_str, S_uint))
              IN IF IsErr(num) THEN Err(PARSE_ERR_MSG)
                 ELSE IF check_type_int_range(num[2])
                      THEN Ok(Primitive(Uint(num[2])))
                      ELSE FallThrough
         ELSE Ok(Primitive(Uint(256)))
    ELSE FallThrough

parse_int(ty_str) ==
    IF StartsWith(ty_str, S_int)
    THEN IF Len(ty_str) > Len(S_int)
         THEN LET num == ParseUsize(After(ty_str, S_int))
              IN IF IsErr(num) THEN Err(PARSE_ERR_MSG)
                 ELSE IF check_type_int_range(num[2])
                      THEN Ok(Primitive(SInt(num[2])))
                      ELSE FallThrough
         ELSE Ok(Primitive(SInt(256)))
    ELSE FallThrough

parse_address(ty_str) ==
    IF StartsWith(ty_str, S_address)
    THEN IF Len(ty_str) > Len(S_address)
         THEN LET address_type_array == SplitWhitespace(ty_str)
              IN IF Len(address_type_array) = 2
                    /\ address_type_array[2] = S_payable
                 THEN Ok(Primitive(Address(TRUE)))
                 ELSE FallThrough
         ELSE IF ty_str = S_address
              THEN Ok(Primitive(Address(FALSE)))
              ELSE FallThrough
    ELSE FallThrough

\* the <M>x<N> suffix shared by the fixed and ufixed blocks: the pair
\* <<num_m, num_n>> or the error of the first `?` that fails
parse_fixed_suffix(num_str) ==
    LET x_pos == RFind(num_str, "x")
    IN IF x_pos = 0 THEN Err(PARSE_ERR_MSG)
       ELSE LET num_m == ParseUsize(SubSeq(num_str, 1, x_pos - 1))
                num_n == ParseUsize(SubSeq(num_str, x_pos + 1, Len(num_str)))
            IN IF IsErr(num_m) THEN Err(PARSE_ERR_MSG)
               ELSE IF IsErr(num_n) THEN Err(PARSE_ERR_MSG)
               ELSE Ok(<<num_m[2], num_n[2]>>)

parse_fixed(ty_str) ==
    IF StartsWith(ty_str, S_fixed)
    THEN IF Len(ty_str) > Len(S_fixed)
         THEN LET mn == parse_fixed_suffix(After(ty_str, S_fixed))
              IN IF IsErr(mn) THEN mn
                 ELSE IF check_type_int_range(mn[2][1])
                         /\ check_fixed_n_range(mn[2][2])
                      THEN Ok(Primitive(Fixed(mn[2][1], mn[2][2])))
                      ELSE FallThrough
         ELSE Ok(Primitive(Fixed(128, 18)))
    ELSE FallThrough

parse_ufixed(ty_str) ==
    IF StartsWith(ty_str, S_ufixed)
    THEN IF Len(ty_str) > Len(S_ufixed)
         THEN LET mn == parse_fixed_suffix(After(ty_str, S_ufixed))
              IN IF IsErr(mn) THEN mn
                 ELSE IF check_type_int_range(mn[2][1])
                         /\ check_fixed_n_range(mn[2][2])
                      THEN Ok(Primitive(Ufixed(mn[2][1], mn[2][2])))
                      ELSE FallThrough
         ELSE Ok(Primitive(Ufixed(128, 18)))
    ELSE FallThrough

parse_bytes(ty_str) ==
    IF StartsWith(ty_str, S_bytes)
    THEN IF Len(ty_str) > Len(S_bytes)
         THEN LET num == ParseUsize(After(ty_str, S_bytes))
              IN IF IsErr(num) THEN Err(PARSE_ERR_MSG)
                 ELSE IF check_static_bytes_range(num[2])
                      THEN Ok(BytesStatic(num[2]))
                      ELSE FallThrough
         ELSE Ok(Bytes)
    ELSE FallThrough

parse_string(ty_str) ==
    IF ty_str = S_string THEN Ok(SolidityString) ELSE FallThrough

\* the first block, in source order, that returns; the final Err otherwise
parse_simple_type(ty_str) ==
    LET blocks == <<parse_bool(ty_str), parse_uint(ty_str), parse_int(ty_str),
                    parse_address(ty_str), parse_fixed(ty_str),
                    parse_ufixed(ty_str), parse_bytes(ty_str),
                    parse_string(ty_str)>>
        returning == {i \in 1..Len(blocks) : blocks[i] # FallThrough}
    IN IF returning = {} THEN Err(PARSE_ERR_MSG_SIMPLE_TYPE)
       ELSE blocks[CHOOSE i \in returning : \A j \in returning : i <= j]

\* static RE_GENERAL_TYPE: ^[a-zA-Z_$][a-zA-Z_$0-9]*$
RE_GENERAL_TYPE(s) ==
    /\ s # <<>>
    /\ s[1] \in IdentStart
    /\ \A i \in 2..Len(s) : s[i] \in IdentChar

(***************************************************************************)
(* SolidityType::parse and SolidityType::parse_array.                      *)
(***************************************************************************)

RECURSIVE parse(_)
RECURSIVE parse_array(_)

\* parse_array splitting at the first "[" instead of the last
parse_array_first(ty_str) ==
    LET last_pos == Find(ty_str, "[")
    IN IF last_pos = 0 THEN Err(PARSE_ERR_MSG)
       ELSE LET out_type == parse(SubSeq(ty_str, 1, last_pos - 1))
                last_indice_str == Trim(SubSeq(ty_str, last_pos, Len(ty_str)))
            IN IF ~IsOk(out_type) THEN out_type
               ELSE IF Len(last_indice_str) >= 2
                       /\ StartsWith(last_indice_str, <<"[">>)
                       /\ EndsWith(last_indice_str, <<"]">>)
               THEN LET length_opt ==
                            Trim(SubSeq(last_indice_str, 2,
                                        Len(last_indice_str) - 1))
                    IN IF length_opt # <<>>
                       THEN LET n == ParseUsize(length_opt)
                            IN IF IsErr(n) THEN Err(PARSE_ERR_MSG)
                               ELSE Ok(StaticArray(out_type[2], n[2]))
                       ELSE Ok(DynamicArray(out_type[2]))
               ELSE Err(PARSE_ERR_MSG_ARRAY_TYPE)

parse_array(ty_str) ==
    LET last_pos == RFind(ty_str, "[")
    IN IF last_pos = 0 THEN Err(PARSE_ERR_MSG)
       ELSE LET out_type == parse(SubSeq(ty_str, 1, last_pos - 1))
                last_indice_str == Trim(SubSeq(ty_str, last_pos, Len(ty_str)))
            IN IF ~IsOk(out_type) THEN out_type
               ELSE IF Len(last_indice_str) >= 2
                       /\ StartsWith(last_indice_str, <<"[">>)
                       /\ EndsWith(last_indice_str, <<"]">>)
               THEN LET length_opt ==
                            Trim(SubSeq(last_indice_str, 2,
                                        Len(last_indice_str) - 1))
                    IN IF length_opt # <<>>
                       THEN LET n == ParseUsize(length_opt)
                            IN IF IsErr(n) THEN Err(PARSE_ERR_MSG)
                               ELSE Ok(StaticArray(out_type[2], n[2]))
                       ELSE Ok(DynamicArray(out_type[2]))
               ELSE Err(PARSE_ERR_MSG_ARRAY_TYPE)

parse(ty_str) ==
    LET trimmed_ty_str == Trim(ty_str)
    IN IF Contains(trimmed_ty_str, "[")
       THEN parse_array(trimmed_ty_str)
       ELSE IF check_simple_type_prefix(trimmed_ty_str)
       THEN parse_simple_type(trimmed_ty_str)
       ELSE IF RE_GENERAL_TYPE(trimmed_ty_str)
       THEN Err("unsupported types")
       ELSE Err("illegal type name")

(***************************************************************************)
(* Layout: is_static, is_value_type, abi_head_size, max_value.             *)
(* A function that can panic returns <<"Ret", v>> or <<"Panic", message>>. *)
(* Array lengths in this model are small, so usize arithmetic does not     *)
(* wrap.                                                                   *)
(***************************************************************************)

Ret(v) == <<"Ret", v>>

IsRet(r) == r[1] = "Ret"

RECURSIVE is_static(_)
\* is_static taking every static array for static, whatever its element
is_static_shallow(t) ==
    CASE t[1] \in {"Primitive", "BytesStatic"} -> TRUE
      [] t[1] = "Tuple" -> \A i \in 1..Len(t[2]) : is_static(t[2][i])
      [] t[1] = "StaticArray" -> TRUE
      [] OTHER -> FALSE

is_static(t) ==
    CASE t[1] \in {"Primitive", "BytesStatic"} -> TRUE
      [] t[1] = "Tuple" -> \A i \in 1..Len(t[2]) : is_static(t[2][i])
      [] t[1] = "StaticArray" -> is_static(t[2])
      [] OTHER -> FALSE

\* is_value_type without the static byte arrays
is_value_type_primitive_only(t) == t[1] = "Primitive"

is_value_type(t) == t[1] \in {"Primitive", "BytesStatic"}

\* the match on a primitive inside abi_head_size
primitive_head_size(p, padded) ==
    CASE p[1] = "Bool" -> IF padded THEN 32 ELSE 1
      [] p[1] \in {"Int", "Uint", "Fixed", "Ufixed"} ->
           IF padded THEN 32 ELSE p[2] \div 8
      [] p[1] = "Address" -> IF padded THEN 32 ELSE 20

\* the BytesStatic arm of abi_head_size
bytes_static_head_size(size, padded) == IF padded THEN 32 ELSE size * 8

\* the StaticArray arm of abi_head_size, given the element's head size
static_array_head_size(elem_size, size, padded) ==
    IF padded THEN (((elem_size * size) + 31) \div 32) * 32
    ELSE elem_size * size

RECURSIVE abi_head_size(_, _)
RECURSIVE abi_head_sizes_vec(_, _)

\* the sum of the sizes, or the panic of the first element that panics
abi_head_sizes_sum(tys, padded) ==
    LET size_vec == abi_head_sizes_vec(tys, padded)
        Sum[i \in 0..Len(size_vec)] ==
            IF i = 0 THEN 0 ELSE Sum[i - 1] + size_vec[i][2][2]
        panics == {i \in 1..Len(size_vec) : IsPanic(size_vec[i][2])}
    IN IF panics # {}
       THEN size_vec[CHOOSE i \in panics : \A j \in panics : i <= j][2]
       ELSE Ret(Sum[Len(size_vec)])

abi_head_sizes_vec(tys, padded) ==
    [i \in 1..Len(tys) |-> <<tys[i], abi_head_size(tys[i], padded)>>]

abi_head_size(t, padded) ==
    IF is_static(t)
    THEN CASE t[1] = "Primitive" -> Ret(primitive_head_size(t[2], padded))
           [] t[1] = "StaticArray" ->
                LET inner == abi_head_size(t[2], padded)
                IN IF IsPanic(inner) THEN inner
                   ELSE Ret(static_array_head_size(inner[2], t[3], padded))
           [] t[1] = "BytesStatic" ->
                Ret(bytes_static_head_size(t[2], padded))
           [] t[1] = "Tuple" -> abi_head_sizes_sum(t[2], padded)
           [] OTHER -> Panic("unexpected field type")
    ELSE Ret(32)

max_value(t) ==
    LET size == abi_head_size(t, FALSE)
    IN IF IsPanic(size) THEN size
       ELSE IF ~(size[2] <= 32) THEN Panic("unexpected type size")
       ELSE Ret(<<"$", "{", "M", "A", "X", "_", "U">>
                \o ToStr(size[2] * 8) \o <<"}">>)

(***************************************************************************)
(* Move types (move_model::ty::Type) and the queries of Context that the   *)
(* source calls.                                                           *)
(***************************************************************************)

MovePrimitive(p) == <<"MovePrimitive", p>>

Vector(t) == <<"Vector", t>>

MoveTuple(tys) == <<"MoveTuple", tys>>

Struct(id) == <<"Struct", id>>

TypeParameter(i) == <<"TypeParameter", i>>

Reference(t) == <<"Reference", t>>

U8 == MovePrimitive("U8")

U64 == MovePrimitive("U64")

U128 == MovePrimitive("U128")

\* Type::is_bool
is_bool(move_ty) == move_ty = MovePrimitive("Bool")

\* Type::is_signer_or_address
is_signer_or_address(move_ty) ==
    move_ty \in {MovePrimitive("Signer"), MovePrimitive("Address")}

\* Context::is_u256: the struct that represents 256-bit integers
is_u256(id) == id = "U256"

\* Context::is_string: the struct that represents strings
is_string(id) == id = "String"

\* Context::get_field_types, for the structs of the modelled program
get_field_types(id) ==
    CASE id = "U256" -> <<Vector(U64)>>
      [] id = "String" -> <<Vector(U8)>>
      [] id = "Pair" -> <<MovePrimitive("Bool"), U64>>
      [] id = "Outer" -> <<Struct("Pair"), Vector(U8)>>
      [] id = "Unit" -> <<>>

(***************************************************************************)
(* SolidityType::translate_from_move.                                      *)
(***************************************************************************)

RECURSIVE translate_from_move(_)

\* the closure generate_tuple: the panic of the first field that panics
generate_tuple(tys) ==
    LET s_type == [i \in 1..Len(tys) |-> translate_from_move(tys[i])]
        panics == {i \in 1..Len(tys) : IsPanic(s_type[i])}
    IN IF panics # {}
       THEN s_type[CHOOSE i \in panics : \A j \in panics : i <= j]
       ELSE Ret(Tuple([i \in 1..Len(tys) |-> s_type[i][2]]))

translate_from_move(move_ty) ==
    CASE move_ty[1] = "MovePrimitive" ->
           (CASE move_ty[2] = "Bool" -> Ret(Primitive(Bool))
              [] move_ty[2] = "U8" -> Ret(Primitive(Uint(8)))
              [] move_ty[2] = "U64" -> Ret(Primitive(Uint(64)))
              [] move_ty[2] = "U128" -> Ret(Primitive(Uint(128)))
              [] move_ty[2] = "Address" -> Ret(Primitive(Address(FALSE)))
              [] move_ty[2] = "Signer" -> Ret(Primitive(Address(FALSE)))
              [] OTHER -> Panic("unexpected field type"))
      [] move_ty[1] = "Vector" ->
           LET ety == translate_from_move(move_ty[2])
           IN IF IsPanic(ety) THEN ety ELSE Ret(DynamicArray(ety[2]))
      [] move_ty[1] = "MoveTuple" -> generate_tuple(move_ty[2])
      [] move_ty[1] = "Struct" ->
           IF is_u256(move_ty[2]) THEN Ret(Primitive(Uint(256)))
           ELSE generate_tuple(get_field_types(move_ty[2]))
      [] OTHER -> Panic("unexpected field type")

(***************************************************************************)
(* Compatibility of a Solidity type with a Move type.                      *)
(***************************************************************************)

\* check_uint_compatibility asking every integer type for its exact width
check_uint_compatibility_exact(size, move_ty) ==
    CASE move_ty[1] = "MovePrimitive" ->
           (CASE move_ty[2] = "U8" -> size = 8
              [] move_ty[2] = "U64" -> size = 64
              [] move_ty[2] = "U128" -> size = 128
              [] OTHER -> FALSE)
      [] move_ty[1] = "Struct" -> is_u256(move_ty[2])
      [] OTHER -> FALSE

\* check_uint_compatibility with the width test of U8 dropped
check_uint_compatibility_any_u8(size, move_ty) ==
    CASE move_ty[1] = "MovePrimitive" ->
           (CASE move_ty[2] = "U8" -> TRUE
              [] move_ty[2] = "U64" -> size <= 64
              [] move_ty[2] = "U128" -> size <= 128
              [] OTHER -> FALSE)
      [] move_ty[1] = "Struct" -> is_u256(move_ty[2])
      [] OTHER -> FALSE

\* check_uint_compatibility with the widths of u64 and u128 excluded
check_uint_compatibility_below_width(size, move_ty) ==
    CASE move_ty[1] = "MovePrimitive" ->
           (CASE move_ty[2] = "U8" -> size = 8
              [] move_ty[2] = "U64" -> size < 64
              [] move_ty[2] = "U128" -> size < 128
              [] OTHER -> FALSE)
      [] move_ty[1] = "Struct" -> is_u256(move_ty[2])
      [] OTHER -> FALSE

check_uint_compatibility(size, move_ty) ==
    CASE move_ty[1] = "MovePrimitive" ->
           (CASE move_ty[2] = "U8" -> size = 8
              [] move_ty[2] = "U64" -> size <= 64
              [] move_ty[2] = "U128" -> size <= 128
              [] OTHER -> FALSE)
      [] move_ty[1] = "Struct" -> is_u256(move_ty[2])
      [] OTHER -> FALSE

check_primitive_type_compatibility(p, move_ty) ==
    CASE p[1] = "Bool" -> is_bool(move_ty)
      [] p[1] = "Uint" -> check_uint_compatibility(p[2], move_ty)
      [] p[1] = "Int" -> check_uint_compatibility(p[2], move_ty)
      [] p[1] = "Fixed" -> FALSE
      [] p[1] = "Ufixed" -> FALSE
      [] p[1] = "Address" -> is_signer_or_address(move_ty)

RECURSIVE check_type_compatibility(_, _)

\* check_type_compatibility without the arm for Bytes and BytesStatic,
\* which then reach the arm that panics
check_type_compatibility_bytes_unexpected(t, move_ty) ==
    CASE t[1] = "Primitive" ->
           Ret(check_primitive_type_compatibility(t[2], move_ty))
      [] t[1] \in {"DynamicArray", "StaticArray"} ->
           IF move_ty[1] = "Vector"
           THEN check_type_compatibility(t[2], move_ty[2])
           ELSE Ret(FALSE)
      [] t[1] = "SolidityString" ->
           IF move_ty[1] = "Struct" THEN Ret(is_string(move_ty[2]))
           ELSE IF move_ty[1] = "Vector" THEN Ret(move_ty[2] = U8)
           ELSE Ret(FALSE)
      [] OTHER -> Panic("unexpected solidity type")

check_type_compatibility(t, move_ty) ==
    CASE t[1] = "Primitive" ->
           Ret(check_primitive_type_compatibility(t[2], move_ty))
      [] t[1] \in {"DynamicArray", "StaticArray"} ->
           IF move_ty[1] = "Vector"
           THEN check_type_compatibility(t[2], move_ty[2])
           ELSE Ret(FALSE)
      [] t[1] = "SolidityString" ->
           IF move_ty[1] = "Struct" THEN Ret(is_string(move_ty[2]))
           ELSE IF move_ty[1] = "Vector" THEN Ret(move_ty[2] = U8)
           ELSE Ret(FALSE)
      [] t[1] \in {"Bytes", "BytesStatic"} ->
           IF move_ty[1] = "Vector" THEN Ret(move_ty[2] = U8)
           ELSE Ret(FALSE)
      [] t[1] = "Tuple" -> Panic("unexpected solidity type")

(***************************************************************************)
(* SoliditySignature: a record of the name and the two lists of            *)
(* <<type, location>> pairs; a Move function (FunctionEnv) is a record of  *)
(* its name and its parameter and return types.                            *)
(***************************************************************************)

SoliditySignature(name, paras, rets) ==
    [sig_name |-> name, para_types |-> paras, ret_types |-> rets]

FunctionEnv(name, paras, rets) ==
    [name |-> name, parameter_types |-> paras, return_types |-> rets]

\* translate every type of a list, each paired with Memory: the panic of
\* the first type that panics
default_type_lst(move_tys) ==
    LET tr == [i \in 1..Len(move_tys) |-> translate_from_move(move_tys[i])]
        panics == {i \in 1..Len(move_tys) : IsPanic(tr[i])}
    IN IF panics # {}
       THEN tr[CHOOSE i \in panics : \A j \in panics : i <= j]
       ELSE Ret([i \in 1..Len(move_tys) |-> <<tr[i][2], Memory>>])

create_default_solidity_signature(f) ==
    LET para_type_lst == default_type_lst(f.parameter_types)
        ret_type_lst == default_type_lst(f.return_types)
    IN IF IsPanic(para_type_lst) THEN para_type_lst
       ELSE IF IsPanic(ret_type_lst) THEN ret_type_lst
       ELSE Ret(SoliditySignature(f.name, para_type_lst[2], ret_type_lst[2]))

compute_param_types(param_types) ==
    Join([i \in 1..Len(param_types) |-> Display(param_types[i])], <<",">>)

selector_signature(s) ==
    s.sig_name \o <<"(">>
    \o compute_param_types([i \in 1..Len(s.para_types) |-> s.para_types[i][1]])
    \o <<")">>

\* the end of one iteration of the loop of extract_para_type_str, given
\* the result of SolidityType::parse and whether a location was written
check_location(t, loc_flag) ==
    IF IsErr(t) THEN t
    ELSE IF loc_flag /\ is_value_type(t[2])
    THEN Err("data location can only be specified for array or struct types")
    ELSE Ok(<<t[2], Memory>>)

\* one iteration of the loop of extract_para_type_str on the trimmed
\* parameter text: the pair pushed, or the error the iteration returns
extract_para(para_trim) ==
    IF para_trim = <<>> THEN Err(PARSE_ERR_MSG)
    ELSE IF EndsWith(para_trim, S_memory)
    THEN check_location(parse(StripSuffix(para_trim, S_memory)[2]), TRUE)
    ELSE IF EndsWith(para_trim, S_calldata)
    THEN Err("calldata is not supported yet")
    ELSE check_location(parse(para_trim), FALSE)

\* the loop of extract_para_type_str, given the result of each iteration:
\* the error of the first iteration that fails, else the pairs pushed
collect_paras(each) ==
    IF \E i \in 1..Len(each) : IsErr(each[i])
    THEN each[CHOOSE i \in 1..Len(each) :
                  IsErr(each[i]) /\ \A j \in 1..(i - 1) : ~IsErr(each[j])]
    ELSE Ok([i \in 1..Len(each) |-> each[i][2]])

\* the body of extract_para_type_str on the trimmed argument text
extract_trimmed(args_trim) ==
    IF args_trim = <<>> THEN Ok(<<>>)
    ELSE collect_paras([i \in 1..Len(Split(args_trim, ",")) |->
                           extract_para(Trim(Split(args_trim, ",")[i]))])

extract_para_type_str(args) == extract_trimmed(Trim(args))

\* static SIG_REG:
\*   ^\s*(?P<sig_name>[a-zA-Z_$][a-zA-Z_$0-9]*)\s*\((?P<args>[^)]*)\)(?P<ret_ty>.*)?
\* The captures <<"Some", sig_name, args, ret_ty>>, or <<"None">>.
SIG_REG(s) ==
    LET s1 == TrimStart(s)
        name_len ==
            IF s1 # <<>> /\ s1[1] \in IdentStart
            THEN CHOOSE k \in 1..Len(s1) :
                     /\ \A i \in 2..k : s1[i] \in IdentChar
                     /\ (k < Len(s1) => s1[k + 1] \notin IdentChar)
            ELSE 0
        s2 == TrimStart(SubSeq(s1, name_len + 1, Len(s1)))
        s3 == Tail(s2)
        close == Find(s3, ")")
        rest == SubSeq(s3, close + 1, Len(s3))
        line_end == Find(rest, "\n")
    IN IF name_len = 0 \/ s2 = <<>> THEN <<"None">>
       ELSE IF s2[1] # "(" \/ close = 0 THEN <<"None">>
       ELSE <<"Some", SubSeq(s1, 1, name_len), SubSeq(s3, 1, close - 1),
              IF line_end = 0 THEN rest ELSE SubSeq(rest, 1, line_end - 1)>>

\* the text between the parentheses of the returns clause, "" when there
\* is no clause, or the error for a malformed clause
parse_ret_ty(ret_ty_str) ==
    LET ret_ty_str_trim == Trim(ret_ty_str)
        stripped_returns == StripPrefix(ret_ty_str_trim, S_returns)
    IN IF ret_ty_str_trim = <<>> THEN Ok(<<>>)
       ELSE IF stripped_returns[1] = "None" THEN Err(PARSE_ERR_MSG_RETURN)
       ELSE LET stripped_returns_trim == Trim(stripped_returns[2])
            IN IF StartsWith(stripped_returns_trim, <<"(">>)
                  /\ EndsWith(stripped_returns_trim, <<")">>)
               THEN Ok(SubSeq(stripped_returns_trim, 2,
                              Len(stripped_returns_trim) - 1))
               ELSE Err(PARSE_ERR_MSG_RETURN)

\* the struct expression at the end of parse_into_solidity_signature: the
\* error of para_types, else the error of ret_types, else the signature
build_signature(sig_name, para_types, ret_types) ==
    IF IsErr(para_types) THEN para_types
    ELSE IF IsErr(ret_types) THEN ret_types
    ELSE Ok(SoliditySignature(sig_name, para_types[2], ret_types[2]))

\* parse_into_solidity_signature after the returns clause is analysed
signature_with_returns(sig_name, para_type_str, ret_ty) ==
    IF IsErr(ret_ty) THEN ret_ty
    ELSE build_signature(sig_name, extract_para_type_str(para_type_str),
                         extract_para_type_str(ret_ty[2]))

\* parse_into_solidity_signature, given the captures of SIG_REG
signature_of_captures(parsed) ==
    IF parsed[1] = "None" THEN Err(PARSE_ERR_MSG)
    ELSE signature_with_returns(parsed[2], parsed[3], parse_ret_ty(parsed[4]))

parse_into_solidity_signature(sig_str) ==
    signature_of_captures(SIG_REG(Trim(sig_str)))

\* one of the two loops of check_sig_compatibility over zipped lists of
\* equal length: Ret(TRUE) when every pair is compatible, else the result
\* of the first pair that is not (Ret(FALSE) or a panic)
RECURSIVE check_pairs(_, _)
check_pairs(move_tys, sig_vec) ==
    IF move_tys = <<>> THEN Ret(TRUE)
    ELSE LET r == check_type_compatibility(sig_vec[1], move_tys[1])
         IN IF r = Ret(TRUE) THEN check_pairs(Tail(move_tys), Tail(sig_vec))
            ELSE r

\* check_sig_compatibility without the comparison of the return counts:
\* the zip of the return lists stops at the shorter one
check_sig_compatibility_no_ret_count(s, f) ==
    LET para_types == f.parameter_types
        sig_para_vec == [i \in 1..Len(s.para_types) |-> s.para_types[i][1]]
        sig_ret_vec == [i \in 1..Len(s.ret_types) |-> s.ret_types[i][1]]
        ret_types == f.return_types
        n == IF Len(ret_types) < Len(sig_ret_vec) THEN Len(ret_types)
             ELSE Len(sig_ret_vec)
    IN IF Len(para_types) # Len(sig_para_vec) THEN Ret(FALSE)
       ELSE LET p == check_pairs(para_types, sig_para_vec)
            IN IF p # Ret(TRUE) THEN p
               ELSE check_pairs(SubSeq(ret_types, 1, n),
                                SubSeq(sig_ret_vec, 1, n))

check_sig_compatibility(s, f) ==
    LET para_types == f.parameter_types
        sig_para_vec == [i \in 1..Len(s.para_types) |-> s.para_types[i][1]]
        sig_ret_vec == [i \in 1..Len(s.ret_types) |-> s.ret_types[i][1]]
        ret_types == f.return_types
    IN IF Len(para_types) # Len(sig_para_vec) THEN Ret(FALSE)
       ELSE LET p == check_pairs(para_types, sig_para_vec)
            IN IF p # Ret(TRUE) THEN p
               ELSE IF Len(ret_types) # Len(sig_ret_vec) THEN Ret(FALSE)
               ELSE check_pairs(ret_types, sig_ret_vec)

\* mangle_solidity_types
mangle_solidity_types(tys) ==
    IF tys = <<>> THEN <<>>
    ELSE <<"$">> \o Join([i \in 1..Len(tys) |-> Display(tys[i])], <<"_">>)
         \o <<"$">>

(***************************************************************************)
(* Inputs.                                                                 *)
(***************************************************************************)

\* largest number written after uint, int and bytes
MaxNum == 264

\* largest length written in a bracket group, and of a constructed array
MaxArrayLen == 2

\* most bracket groups after an element type
MaxDims == 2

\* most constructors in a SolidityType built directly
MaxNodes == 3

\* deepest nesting of vector in a Move type
MaxVecDepth == 2

\* most parameters of a Move function and of a signature text
MaxParams == 2

\* most return values of a Move function and of a signature text
MaxRets == 1

Sp == <<" ">>

\* texts of a prefix followed by a number in plain decimal
NumberedTexts ==
    {p \o ToStr(n) : p \in {S_uint, S_int, S_bytes}, n \in 0..MaxNum}

FixedTexts ==
    {p \o ToStr(m) \o <<"x">> \o ToStr(n) :
        p \in {S_fixed, S_ufixed}, m \in {0, 8, 12, 128, 256, 264},
        n \in {0, 18, 80, 81}}

OtherTexts ==
    {S_bool, S_uint, S_int, S_fixed, S_ufixed, S_address, S_bytes, S_string,
     S_address \o Sp \o S_payable,
     S_address \o Sp \o Sp \o S_payable,
     S_address \o <<"x">> \o Sp \o S_payable,
     S_address \o Sp \o S_payable \o Sp \o <<"x">>,
     S_address \o S_payable,
     S_address \o Sp \o S_memory,
     S_string \o <<"s">>, S_bool \o <<"e", "a", "n">>,
     <<"f", "o", "o">>, <<"1", "x">>, <<"(", "b", "o", "o", "l", ")">>, <<>>,
     Sp \o S_uint \o <<"8">> \o Sp,
     S_uint \o <<"+", "8">>, S_uint \o <<"0", "8">>, S_uint \o <<"-", "8">>,
     S_uint \o <<"x">>, S_uint \o Sp \o <<"8">>,
     S_int \o <<"+", "1", "6">>, S_bytes \o <<"0", "4">>,
     S_fixed \o <<"8">>, S_fixed \o <<"x", "8">>, S_fixed \o <<"8", "x">>,
     S_ufixed \o <<"8", "x", "8", "x", "8">>,
     S_fixed \o <<"+", "8", "x", "+", "8">>,
     <<"(", "b", "o", "o", "l", ")", "[", "]">>,
     <<"(", "u", "i", "n", "t", "8", ",", "b", "o", "o", "l", ")">>,
     <<"t", "u", "p", "l", "e">>, <<"(", ")">>}

\* element types of the array texts
ArrayBases ==
    {S_uint \o <<"2", "5", "6">>, S_address \o Sp \o S_payable, S_address,
     S_bytes \o <<"3">>, S_string, S_uint \o <<"7">>, <<"f", "o", "o">>}

\* one well-formed bracket group: [] or [n]
Groups ==
    {<<"[">> \o ToStr(n) \o <<"]">> : n \in 0..MaxArrayLen} \cup {<<"[", "]">>}

\* bracket groups that are not well formed
OddGroups ==
    {<<"[", " ", "]">>, <<"[", " ", "2", " ", "]">>,
     <<" ", "[", "1", "]", " ">>, <<"[", "x", "]">>, <<"[", "2">>, <<"]">>}

RECURSIVE GroupRuns(_)
\* the texts of exactly k well-formed bracket groups
GroupRuns(k) ==
    IF k = 0 THEN {<<>>}
    ELSE {r \o g : r \in GroupRuns(k - 1), g \in Groups}

\* a base followed by 1 to MaxDims well-formed groups, or by an odd group
\* alone, before or after a well-formed one
ArrayTexts ==
    {b \o r : b \in ArrayBases,
              r \in UNION {GroupRuns(k) : k \in 1..MaxDims}}
    \cup {b \o g : b \in ArrayBases, g \in OddGroups}
    \cup {b \o g \o h : b \in ArrayBases, g \in OddGroups, h \in Groups}
    \cup {b \o h \o g : b \in ArrayBases, g \in OddGroups, h \in Groups}

TypeTexts == NumberedTexts \cup FixedTexts \cup OtherTexts \cup ArrayTexts

\* SolidityType values without components
Leaves ==
    {Primitive(Bool), Primitive(Address(FALSE)), Primitive(Address(TRUE)),
     SolidityString, Bytes}
    \cup {Primitive(Uint(8 * k)) : k \in 1..32}
    \cup {Primitive(SInt(8 * k)) : k \in 1..32}
    \cup {Primitive(Fixed(8 * k, n)) : k \in {1, 16, 32}, n \in {0, 18, 80}}
    \cup {Primitive(Ufixed(8 * k, n)) : k \in {1, 16, 32}, n \in {0, 18, 80}}
    \cup {BytesStatic(n) : n \in 1..32}

\* the components of the SolidityType values built with components
Elements ==
    {Primitive(Uint(8)), Primitive(Address(TRUE)), BytesStatic(32),
     SolidityString}

RECURSIVE TypesOfSize(_)
RECURSIVE ListsOfSize(_)

\* the non-empty lists of types with n constructors in all
ListsOfSize(n) ==
    IF n < 1 THEN {}
    ELSE {<<t>> : t \in TypesOfSize(n)}
         \cup UNION {{<<t>> \o l : t \in TypesOfSize(k),
                                   l \in ListsOfSize(n - k)} : k \in 1..(n - 1)}

\* the types over Elements with exactly n constructors
TypesOfSize(n) ==
    IF n = 1 THEN Elements \cup {Tuple(<<>>)}
    ELSE {DynamicArray(t) : t \in TypesOfSize(n - 1)}
         \cup {StaticArray(t, k) : t \in TypesOfSize(n - 1), k \in 0..MaxArrayLen}
         \cup {Tuple(l) : l \in ListsOfSize(n - 1)}

SolTypes == Leaves \cup UNION {TypesOfSize(n) : n \in 1..MaxNodes}

MoveBases ==
    {MovePrimitive(p) : p \in {"Bool", "U8", "U64", "U128", "Address",
                               "Signer", "Num", "Range", "EventStore"}}
    \cup {Struct(id) : id \in {"U256", "String", "Pair", "Outer", "Unit"}}
    \cup {TypeParameter(0), Reference(U8), MoveTuple(<<>>),
          MoveTuple(<<U8, Struct("Pair")>>)}

RECURSIVE MoveTypesOfDepth(_)
MoveTypesOfDepth(d) ==
    IF d = 0 THEN MoveBases
    ELSE MoveBases \cup {Vector(t) : t \in MoveTypesOfDepth(d - 1)}

MoveTypes == MoveTypesOfDepth(MaxVecDepth)

\* the Move types a held SolidityType is checked against
CheckedMoveTypes ==
    {MovePrimitive(p) : p \in {"Bool", "U8", "U64", "U128", "Address",
                               "Signer", "Num"}}
    \cup {Struct("U256"), Struct("String"), Struct("Pair"), Vector(U8),
          Vector(U64), Vector(Vector(U8)), Vector(Struct("U256")),
          Reference(U8)}

RECURSIVE ListsUpTo(_, _)
\* the lists of at most n members of S
ListsUpTo(S, n) ==
    IF n = 0 THEN {<<>>}
    ELSE ListsUpTo(S, n - 1)
         \cup {l \o <<x>> : l \in {m \in ListsUpTo(S, n - 1) : Len(m) = n - 1},
                            x \in S}

\* the name of every modelled function and signature
F_name == <<"f">>

\* type texts of the parameter and return entries of signature texts
EntryTypes ==
    {S_uint \o <<"8">>, S_uint \o <<"6", "4">>, S_bool, S_address,
     S_address \o Sp \o S_payable, S_fixed, S_bytes \o <<"4">>, S_bytes,
     S_string, S_uint \o <<"8", "[", "]">>,
     S_uint \o <<"6", "4", "[", "2", "]">>, S_uint \o <<"7">>,
     <<"f", "o", "o">>}

\* what follows the type text in an entry
Suffixes == {<<>>, Sp \o S_memory, S_memory, Sp \o S_calldata}

\* an entry of a parameter list: a type text and a suffix
Entries == {<<t, x>> : t \in EntryTypes, x \in Suffixes}

\* the entries of the signatures checked against Move functions
PlainEntries == {<<S_uint \o <<"8">>, <<>>>>, <<S_uint \o <<"6", "4">>, <<>>>>}

EntryText(e) == e[1] \o e[2]

\* the text of a parameter list
ParamsText(es) == Join([i \in 1..Len(es) |-> EntryText(es[i])], <<",">>)

\* the text of a signature named f with parameter entries ps and, when rs
\* is not empty, a returns clause with entries rs
SigOf(ps, rs) ==
    F_name \o <<"(">> \o ParamsText(ps) \o <<")">>
    \o (IF rs = <<>> THEN <<>>
        ELSE Sp \o S_returns \o Sp \o <<"(">> \o ParamsText(rs) \o <<")">>)

\* the <<parameter entries, return entries>> of the signature texts
SigShapes ==
    {<<<<e>>, <<>>>> : e \in Entries}
    \cup {<<<<>>, <<e>>>> : e \in Entries}
    \cup {<<<<d, e>>, <<>>>> : d \in PlainEntries, e \in Entries}
    \cup {<<<<e, d>>, <<d>>>> : d \in PlainEntries, e \in Entries}
    \cup (ListsUpTo(PlainEntries, MaxParams) \X ListsUpTo(PlainEntries, MaxRets))

\* signature texts outside the shape f(...) [returns (...)]
OddSigTexts ==
    {<<>>, F_name, F_name \o <<"(">>, <<"1">> \o F_name \o <<"(", ")">>,
     F_name \o <<"(", ")", "x">>,
     F_name \o <<"(", ")">> \o Sp \o S_returns,
     F_name \o <<"(", ")">> \o Sp \o S_returns \o Sp \o S_bool,
     F_name \o <<"(", ")">> \o Sp \o S_returns \o <<"(">> \o S_bool,
     F_name \o <<"(", ")">> \o S_returns \o <<"(", ")">>,
     F_name \o <<"(", ")">> \o S_returns \o <<"(">> \o S_bool \o <<")", ")">>,
     Sp \o <<"$", "_", "a", "1">> \o Sp \o <<"(">> \o Sp \o <<")">> \o Sp,
     F_name \o <<"(">> \o S_bool \o <<",", ")">>,
     F_name \o <<"(", ",", ")">>,
     F_name \o <<"(">> \o S_bool \o <<",", ",">> \o S_bool \o <<")">>,
     F_name \o <<"-", "(", ")">>,
     F_name \o <<"(", "(">> \o S_bool \o <<")", ")">>}

SigTexts == {SigOf(sh[1], sh[2]) : sh \in SigShapes} \cup OddSigTexts

\* types of the parameters and return values of the Move functions that
\* signatures are checked against
FunTypes == {U8, U64}

\* Move functions with parameters and return values of further types
OtherFuns ==
    {FunctionEnv(F_name, <<Vector(U8)>>, <<>>),
     FunctionEnv(F_name, <<>>, <<Vector(U8)>>),
     FunctionEnv(F_name, <<MovePrimitive("Bool")>>, <<>>),
     FunctionEnv(F_name, <<MovePrimitive("Address")>>, <<Struct("String")>>),
     FunctionEnv(F_name, <<Vector(U64), U64>>, <<>>),
     FunctionEnv(F_name, <<U8, MovePrimitive("Signer")>>, <<U128>>),
     FunctionEnv(F_name, <<Struct("U256"), Vector(Vector(U128))>>,
                 <<Struct("U256")>>),
     FunctionEnv(F_name, <<Struct("Pair")>>, <<>>),
     FunctionEnv(F_name, <<U8>>, <<Struct("Outer")>>),
     FunctionEnv(F_name, <<TypeParameter(0)>>, <<>>),
     FunctionEnv(F_name, <<>>, <<Reference(U8)>>),
     FunctionEnv(F_name, <<MovePrimitive("Address"), Vector(MovePrimitive("Bool"))>>,
                 <<Vector(MovePrimitive("Signer"))>>),
     FunctionEnv(F_name, <<Vector(Vector(Struct("U256")))>>, <<U128>>)}

Funs ==
    {FunctionEnv(F_name, ps, rs) :
        ps \in ListsUpTo(FunTypes, MaxParams), rs \in ListsUpTo(FunTypes, MaxRets)}
    \cup OtherFuns

(***************************************************************************)
(* The state machine: a value is obtained from one of the constructing     *)
(* functions, one of the functions that take it is applied, and the value  *)
(* is dropped.                                                             *)
(***************************************************************************)

None == <<"None">>

Init ==
    /\ origin = "none"
    /\ last_op = "init"
    /\ input = <<>>
    /\ source_ty = None
    /\ held = None
    /\ result = None
    /\ held_sig = None
    /\ source_fun = None

\* a SolidityType is held and no function has been applied to it yet
FreshType ==
    /\ origin \in {"parse", "translate", "new"}
    /\ last_op = origin
    /\ held[1] \in {"Ok", "Ret"}

\* a signature parsed from text is held and nothing has been applied to it
FreshParsedSig ==
    /\ origin = "parse_sig"
    /\ last_op = origin
    /\ IsOk(held_sig)

\* SolidityType::parse(ty_str)
Parse(ty_str) ==
    /\ origin = "none"
    /\ origin' = "parse"
    /\ last_op' = "parse"
    /\ input' = ty_str
    /\ held' = parse(ty_str)
    /\ UNCHANGED <<source_ty, result, held_sig, source_fun>>

\* SolidityType::translate_from_move(ctx, ty)
Translate(m) ==
    /\ origin = "none"
    /\ origin' = "translate"
    /\ last_op' = "translate"
    /\ source_ty' = m
    /\ held' = translate_from_move(m)
    /\ UNCHANGED <<input, result, held_sig, source_fun>>

\* a value of the enum SolidityType built by its constructors
New(t) ==
    /\ origin = "none"
    /\ origin' = "new"
    /\ last_op' = "new"
    /\ held' = Ret(t)
    /\ UNCHANGED <<input, source_ty, result, held_sig, source_fun>>

\* format!("{}", ty)
Format ==
    /\ FreshType
    /\ last_op' = "format"
    /\ result' = Display(held[2])
    /\ UNCHANGED <<origin, input, source_ty, held, held_sig, source_fun>>

\* SolidityType::parse of the text Format produced
Reparse ==
    /\ last_op = "format"
    /\ last_op' = "reparse"
    /\ result' = parse(result)
    /\ UNCHANGED <<origin, input, source_ty, held, held_sig, source_fun>>

\* ty.is_static(), ty.abi_head_size(false) and ty.abi_head_size(true)
HeadSize ==
    /\ FreshType
    /\ last_op' = "abi_head_size"
    /\ result' = [static |-> is_static(held[2]),
                  unpadded |-> abi_head_size(held[2], FALSE),
                  padded |-> abi_head_size(held[2], TRUE)]
    /\ UNCHANGED <<origin, input, source_ty, held, held_sig, source_fun>>

\* ty.max_value()
MaxValue ==
    /\ FreshType
    /\ last_op' = "max_value"
    /\ result' = max_value(held[2])
    /\ UNCHANGED <<origin, input, source_ty, held, held_sig, source_fun>>

\* ty.check_type_compatibility(ctx, m)
CheckType(m) ==
    /\ FreshType
    /\ last_op' = "check_type"
    /\ result' = <<m, check_type_compatibility(held[2], m)>>
    /\ UNCHANGED <<origin, input, source_ty, held, held_sig, source_fun>>

\* SoliditySignature::parse_into_solidity_signature(sig_str)
ParseSig(sig_str) ==
    /\ origin = "none"
    /\ origin' = "parse_sig"
    /\ last_op' = "parse_sig"
    /\ input' = sig_str
    /\ held_sig' = parse_into_solidity_signature(sig_str)
    /\ UNCHANGED <<source_ty, held, result, source_fun>>

\* SoliditySignature::create_default_solidity_signature(ctx, f)
CreateDefault(f) ==
    /\ origin = "none"
    /\ origin' = "default"
    /\ last_op' = "default"
    /\ source_fun' = f
    /\ held_sig' = create_default_solidity_signature(f)
    /\ UNCHANGED <<input, source_ty, held, result>>

\* format!("{}", sig)
Selector ==
    /\ origin \in {"parse_sig", "default"}
    /\ last_op = origin
    /\ held_sig[1] \in {"Ok", "Ret"}
    /\ last_op' = "selector"
    /\ result' = selector_signature(held_sig[2])
    /\ UNCHANGED <<origin, input, source_ty, held, held_sig, source_fun>>

\* sig.check_sig_compatibility(ctx, f), called on the user defined
\* signature
CheckSig(f) ==
    /\ FreshParsedSig
    /\ last_op' = "check_sig"
    /\ result' = <<f, check_sig_compatibility(held_sig[2], f)>>
    /\ UNCHANGED <<origin, input, source_ty, held, held_sig, source_fun>>

\* sig.check_sig_compatibility(ctx, f), called on the default signature of
\* f itself
CheckDefault ==
    /\ origin = "default"
    /\ last_op = origin
    /\ IsRet(held_sig)
    /\ last_op' = "check_default"
    /\ result' = <<source_fun, check_sig_compatibility(held_sig[2], source_fun)>>
    /\ UNCHANGED <<origin, input, source_ty, held, held_sig, source_fun>>

\* the held value goes out of scope
Drop ==
    /\ origin # "none"
    /\ origin' = "none"
    /\ last_op' = "init"
    /\ input' = <<>>
    /\ source_ty' = None
    /\ held' = None
    /\ result' = None
    /\ held_sig' = None
    /\ source_fun' = None

Next ==
    \/ \E ty_str \in TypeTexts : Parse(ty_str)
    \/ \E m \in MoveTypes : Translate(m)
    \/ \E t \in SolTypes : New(t)
    \/ Format
    \/ Reparse
    \/ HeadSize
    \/ MaxValue
    \/ \E m \in CheckedMoveTypes
                \cup (IF origin = "translate" THEN {source_ty} ELSE {}) :
           CheckType(m)
    \/ \E sig_str \in SigTexts : ParseSig(sig_str)
    \/ \E f \in Funs : CreateDefault(f)
    \/ Selector
    \/ \E f \in Funs : CheckSig(f)
    \/ CheckDefault
    \/ Drop

Spec == Init /\ [][Next]_vars


(***************************************************************************)
(* Properties.                                                             *)
(***************************************************************************)

\* t with every payable address replaced by a non-payable one
RECURSIVE WithoutPayable(_)
WithoutPayable(t) ==
    CASE t[1] = "Primitive" ->
           IF t[2][1] = "Address" THEN Primitive(Address(FALSE)) ELSE t
      [] t[1] = "Tuple" ->
           Tuple([i \in 1..Len(t[2]) |-> WithoutPayable(t[2][i])])
      [] t[1] = "DynamicArray" -> DynamicArray(WithoutPayable(t[2]))
      [] t[1] = "StaticArray" -> StaticArray(WithoutPayable(t[2]), t[3])
      [] OTHER -> t

\* C1, as claimed: for every type T that parse returns, parsing the
\* Display rendering of T succeeds and returns T itself.
C1_RoundTripExact ==
    (origin = "parse" /\ last_op = "reparse") => result = Ok(held[2])

\* C1, amended: for every type T that parse returns, parsing the Display
\* rendering of T succeeds and returns T with every payable address made
\* non-payable; it returns T itself when T holds no payable address.
C1_RoundTripUpToPayable ==
    (origin = "parse" /\ last_op = "reparse") =>
        /\ result = Ok(WithoutPayable(held[2]))
        /\ (WithoutPayable(held[2]) = held[2] => result = Ok(held[2]))

\* an array of payable addresses has been parsed, rendered as address[]
\* and parsed again as an array of non-payable addresses
C1_Witness ==
    /\ origin = "parse"
    /\ last_op = "reparse"
    /\ held = Ok(DynamicArray(Primitive(Address(TRUE))))
    /\ result = Ok(DynamicArray(Primitive(Address(FALSE))))

\* the data-model ranges: widths multiples of 8 in [8,256], fraction
\* digits at most 80, static byte lengths in [1,32], at every depth
RECURSIVE InDataModel(_)
InDataModel(t) ==
    CASE t[1] = "Primitive" ->
           (CASE t[2][1] \in {"Uint", "Int"} ->
                   t[2][2] \in {8 * k : k \in 1..32}
              [] t[2][1] \in {"Fixed", "Ufixed"} ->
                   t[2][2] \in {8 * k : k \in 1..32} /\ t[2][3] \in 0..80
              [] OTHER -> TRUE)
      [] t[1] = "BytesStatic" -> t[2] \in 1..32
      [] t[1] = "Tuple" -> \A i \in 1..Len(t[2]) : InDataModel(t[2][i])
      [] t[1] \in {"DynamicArray", "StaticArray"} -> InDataModel(t[2])
      [] OTHER -> TRUE

\* C2: for every static type T within the data-model ranges,
\* abi_head_size(T, true) >= abi_head_size(T, false) and
\* abi_head_size(T, true) is a multiple of 32.
C2_PaddedNotSmaller ==
    (last_op = "abi_head_size" /\ result.static /\ InDataModel(held[2])) =>
        /\ IsRet(result.padded)
        /\ IsRet(result.unpadded)
        /\ result.padded[2] >= result.unpadded[2]
        /\ result.padded[2] % 32 = 0

\* the integer types among the primitive Move types
U8_U64_U128 == {U8, U64, U128}

\* C3, as claimed: Uint(8) is compatible with a primitive source integer
\* type only when that type is u8; for u64 and u128 the check is false.
C3_Uint8OnlyWithU8 ==
    (last_op = "check_type" /\ held[2] = Primitive(Uint(8))
        /\ result[1] \in U8_U64_U128) =>
        (result[2] = Ret(TRUE) <=> result[1] = U8)

\* C3, amended: Uint(8) is compatible with every primitive source integer
\* type, u8, u64 and u128 alike, and with no other primitive source type.
C3_Uint8WithEveryInteger ==
    (last_op = "check_type" /\ held[2] = Primitive(Uint(8))
        /\ result[1][1] = "MovePrimitive") =>
        (result[2] = Ret(TRUE) <=> result[1] \in U8_U64_U128)

\* Uint(8) has been checked against u64 and found compatible
C3_Witness ==
    /\ last_op = "check_type"
    /\ held[2] = Primitive(Uint(8))
    /\ result = <<U64, Ret(TRUE)>>

\* C4, as claimed: Uint(64) is compatible with every primitive source
\* integer type of width at most 64, that is with u8 and with u64.
C4_Uint64WithUpTo64 ==
    (last_op = "check_type" /\ held[2] = Primitive(Uint(64))
        /\ result[1] \in {U8, U64}) =>
        result[2] = Ret(TRUE)

\* C4, amended: Uint(64) is compatible with every primitive source
\* integer type of width at least 64, that is with u64 and with u128, and
\* is not compatible with u8.
C4_Uint64WithAtLeast64 ==
    (last_op = "check_type" /\ held[2] = Primitive(Uint(64))
        /\ result[1] \in U8_U64_U128) =>
        (result[2] = Ret(TRUE) <=> result[1] \in {U64, U128})

\* Uint(64) has been checked against u8 and found incompatible
C4_Witness ==
    /\ last_op = "check_type"
    /\ held[2] = Primitive(Uint(64))
    /\ result = <<U8, Ret(FALSE)>>

\* C5: for every n written in plain decimal, parse("uint" + str(n))
\* returns Primitive(Uint(n)) if 8 <= n <= 256 and n % 8 = 0, and an error
\* for every other n, never another type.
C5_UintWidth ==
    origin = "parse" =>
        \A n \in 0..MaxNum :
            input = S_uint \o ToStr(n) =>
                IF n >= 8 /\ n <= 256 /\ n % 8 = 0
                THEN held = Ok(Primitive(Uint(n)))
                ELSE IsErr(held)

\* uint12, in the range but no multiple of 8, has been parsed to an error
C5_Witness ==
    /\ origin = "parse"
    /\ input = S_uint \o <<"1", "2">>
    /\ IsErr(held)

\* an entry written with the location memory
HasMemory(e) == EndsWith(e[2], S_memory)

\* the text of an entry with the word memory taken off its end
Remaining(e) == SubSeq(EntryText(e), 1, Len(EntryText(e)) - Len(S_memory))

\* the entry is written with memory and the rest of it is a value type
MemoryOnValueType(e) ==
    /\ HasMemory(e)
    /\ IsOk(parse(Remaining(e)))
    /\ parse(Remaining(e))[2][1] \in {"Primitive", "BytesStatic"}

\* the entry is written with memory and the rest of it is a type that is
\* no value type
MemoryOnOtherType(e) ==
    /\ HasMemory(e)
    /\ IsOk(parse(Remaining(e)))
    /\ parse(Remaining(e))[2][1] \notin {"Primitive", "BytesStatic"}

\* C6 for the signature text with parameter entries ps and return entries
\* rs
C6_ForShape(ps, rs) ==
    /\ (\E i \in 1..Len(ps) : MemoryOnValueType(ps[i])) => IsErr(held_sig)
    /\ (\E i \in 1..Len(rs) : MemoryOnValueType(rs[i])) => IsErr(held_sig)
    /\ (Len(ps) + Len(rs) = 1 /\ MemoryOnOtherType((ps \o rs)[1])) =>
           IsOk(held_sig)
    /\ IsOk(held_sig) =>
           /\ \A i \in 1..Len(ps) :
                  MemoryOnOtherType(ps[i]) =>
                      held_sig[2].para_types[i]
                          = <<parse(Remaining(ps[i]))[2], Memory>>
           /\ \A i \in 1..Len(rs) :
                  MemoryOnOtherType(rs[i]) =>
                      held_sig[2].ret_types[i]
                          = <<parse(Remaining(rs[i]))[2], Memory>>

\* C6: parse_into_solidity_signature fails whenever a parameter or return
\* entry ends with memory and the rest of the entry parses to a value type
\* (a Primitive or a BytesStatic); an entry that ends with memory and
\* whose rest parses to another type is accepted with location Memory.
C6_MemoryOnValueTypeFails ==
    last_op = "parse_sig" =>
        \A sh \in SigShapes :
            input = SigOf(sh[1], sh[2]) => C6_ForShape(sh[1], sh[2])

\* f(address payable memory) has been parsed to an error
C6_Witness ==
    /\ last_op = "parse_sig"
    /\ input = SigOf(<<<<S_address \o Sp \o S_payable, Sp \o S_memory>>>>, <<>>)
    /\ IsErr(held_sig)

\* every positional pair of the two lists is compatible
AllCompatible(sig_tys, move_tys) ==
    \A i \in 1..Len(sig_tys) :
        check_type_compatibility(sig_tys[i][1], move_tys[i]) = Ret(TRUE)

\* C7: check_sig_compatibility returns true if and only if the parameter
\* counts are equal, the return counts are equal and every positional
\* pair of both lists satisfies check_type_compatibility; a difference of
\* either count yields false.
C7_SigCompatibility ==
    last_op = "check_sig" =>
        LET s == held_sig[2]
            f == result[1]
            same_counts ==
                /\ Len(s.para_types) = Len(f.parameter_types)
                /\ Len(s.ret_types) = Len(f.return_types)
        IN /\ result[2] = Ret(TRUE) <=>
                  /\ same_counts
                  /\ AllCompatible(s.para_types, f.parameter_types)
                  /\ AllCompatible(s.ret_types, f.return_types)
           /\ ~same_counts => result[2] = Ret(FALSE)

\* a signature whose parameters all match, with one return value more
\* than the function, has been checked and found incompatible
C7_Witness ==
    /\ last_op = "check_sig"
    /\ Len(held_sig[2].para_types) = 1
    /\ Len(result[1].parameter_types) = 1
    /\ AllCompatible(held_sig[2].para_types, result[1].parameter_types)
    /\ Len(held_sig[2].ret_types) = 1
    /\ Len(result[1].return_types) = 0
    /\ result[2] = Ret(FALSE)

\* t holds a dynamic array, bytes or string outside every dynamic array
RECURSIVE HasDynamicComponent(_)
HasDynamicComponent(t) ==
    CASE t[1] \in {"DynamicArray", "Bytes", "SolidityString"} -> TRUE
      [] t[1] = "StaticArray" -> HasDynamicComponent(t[2])
      [] t[1] = "Tuple" ->
           \E i \in 1..Len(t[2]) : HasDynamicComponent(t[2][i])
      [] OTHER -> FALSE

\* C8: a Tuple is static iff every element is (the empty tuple is), a
\* StaticArray iff its element is, every Primitive and BytesStatic is, a
\* DynamicArray, Bytes or String never; and abi_head_size of a type that
\* is not static is 32 for both values of padded.
C8_StaticIsStructural ==
    last_op = "abi_head_size" =>
        LET t == held[2]
        IN /\ t[1] \in {"Primitive", "BytesStatic"} => result.static
           /\ t[1] \in {"DynamicArray", "Bytes", "SolidityString"} =>
                  ~result.static
           /\ t[1] = "StaticArray" => (result.static <=> is_static(t[2]))
           /\ t[1] = "Tuple" =>
                  (result.static <=> \A i \in 1..Len(t[2]) : is_static(t[2][i]))
           /\ result.static <=> ~HasDynamicComponent(t)
           /\ HasDynamicComponent(t) =>
                  result.unpadded = Ret(32) /\ result.padded = Ret(32)

\* the sizes of a static array of strings have been computed: it is not
\* static and both sizes are 32
C8_Witness ==
    /\ last_op = "abi_head_size"
    /\ held = Ret(StaticArray(SolidityString, 2))
    /\ ~result.static
    /\ result.unpadded = Ret(32)
    /\ result.padded = Ret(32)

\* a well-formed bracket group: <<>> for [] and <<n>> for [n]
GroupText(g) == IF g = <<>> THEN <<"[", "]">> ELSE <<"[">> \o ToStr(g[1]) \o <<"]">>

WellFormedGroups == {<<>>} \cup {<<n>> : n \in 0..MaxArrayLen}

\* the text of a run of groups, the leftmost first
RunText(run) == Join([i \in 1..Len(run) |-> GroupText(run[i])], <<>>)

\* the array type for element type e and a run of groups: the leftmost
\* group makes the innermost array, the rightmost the outermost
RECURSIVE Wrapped(_, _)
Wrapped(e, run) ==
    IF run = <<>> THEN e
    ELSE LET inner == Wrapped(e, SubSeq(run, 1, Len(run) - 1))
             g == run[Len(run)]
         IN IF g = <<>> THEN DynamicArray(inner) ELSE StaticArray(inner, g[1])

\* the runs of 1 to MaxDims well-formed groups
WellFormedRuns ==
    {r \in ListsUpTo(WellFormedGroups, MaxDims) : r # <<>>}

\* C9: for a valid element type E followed by k >= 1 bracket groups, parse
\* returns the arrays nested with the rightmost group outermost and the
\* leftmost innermost; [] gives DynamicArray and [n] gives StaticArray of
\* length n.
C9_RightmostGroupOutermost ==
    (origin = "parse" /\ last_op = "parse") =>
        \A b \in ArrayBases : \A run \in WellFormedRuns :
            (input = b \o RunText(run) /\ IsOk(parse(b))) =>
                held = Ok(Wrapped(parse(b)[2], run))

\* uint256[2][] has been parsed to a dynamic array of arrays of length 2
C9_Witness ==
    /\ origin = "parse"
    /\ last_op = "parse"
    /\ input = S_uint \o <<"2", "5", "6", "[", "2", "]", "[", "]">>
    /\ held = Ok(DynamicArray(StaticArray(Primitive(Uint(256)), 2)))

\* C10: every type that parse or translate_from_move returns is within
\* the data-model ranges at every depth.
C10_ReturnedTypesInDataModel ==
    (origin \in {"parse", "translate"} /\ held[1] \in {"Ok", "Ret"}) =>
        InDataModel(held[2])

\* bytes3[2][] has been parsed to a dynamic array of arrays of two
\* static byte arrays of length 3
C10_Witness ==
    /\ origin = "parse"
    /\ input = S_bytes \o <<"3", "[", "2", "]", "[", "]">>
    /\ held = Ok(DynamicArray(StaticArray(BytesStatic(3), 2)))

\* the text is address, white space and the word payable
AddressPayableText(t) == SplitWhitespace(t) = <<S_address, S_payable>>

\* C11: for a trimmed input that starts with address and holds no [, parse
\* succeeds only when the text is address, with result Address(false), or
\* address followed by white space and the word payable, with result
\* Address(true); every other text with that prefix is an error.
C11_AddressOnlyTwoForms ==
    (origin = "parse" /\ last_op = "parse"
        /\ StartsWith(Trim(input), S_address)
        /\ ~Contains(input, "[")
        /\ IsOk(held)) =>
        \/ Trim(input) = S_address /\ held = Ok(Primitive(Address(FALSE)))
        \/ AddressPayableText(Trim(input))
              /\ held = Ok(Primitive(Address(TRUE)))

\* C12: for every value type T within the data-model ranges,
\* abi_head_size(T, false) <= 32, so max_value(T) does not fail its
\* assertion and returns the name of the constant for
\* abi_head_size(T, false) * 8 bits.
C12_MaxValueOfValueType ==
    (last_op = "max_value" /\ is_value_type(held[2])
        /\ InDataModel(held[2])) =>
        LET size == abi_head_size(held[2], FALSE)
        IN /\ IsRet(size)
           /\ size[2] <= 32
           /\ result = Ret(<<"$", "{", "M", "A", "X", "_", "U">>
                           \o ToStr(size[2] * 8) \o <<"}">>)

RECURSIVE HasTuple(_)
\* the type is a Tuple or holds one at some depth
HasTuple(t) ==
    CASE t[1] = "Tuple" -> TRUE
      [] t[1] \in {"DynamicArray", "StaticArray"} -> HasTuple(t[2])
      [] OTHER -> FALSE

\* the types of the parameter and return entries of a signature
TypesOfSignature(s) ==
    {s.para_types[i][1] : i \in 1..Len(s.para_types)}
    \cup {s.ret_types[i][1] : i \in 1..Len(s.ret_types)}

\* C13: no type that parse returns holds a Tuple at any depth, nor does a
\* type of a signature that parse_into_solidity_signature returns; hence
\* check_sig_compatibility of such a signature with any function returns
\* true or false and never panics.
C13_ParsedSignatureNeverPanics ==
    /\ (origin = "parse" /\ IsOk(held)) => ~HasTuple(held[2])
    /\ (origin = "parse_sig" /\ IsOk(held_sig)) =>
           \A t \in TypesOfSignature(held_sig[2]) : ~HasTuple(t)
    /\ last_op = "check_sig" => result[2] \in {Ret(TRUE), Ret(FALSE)}

\* f(bytes) has been parsed and checked against a function with one
\* parameter, a vector of u8, and found compatible
C13_Witness ==
    /\ origin = "parse_sig"
    /\ last_op = "check_sig"
    /\ input = SigOf(<<<<S_bytes, <<>>>>>>, <<>>)
    /\ TypesOfSignature(held_sig[2]) = {Bytes}
    /\ result[1].parameter_types = <<Vector(U8)>>
    /\ result[2] = Ret(TRUE)

RECURSIVE PlainMoveType(_)
\* a source type built from bool, u8, u64, u128, address, signer, the 256
\* bit integer struct and vectors of these
PlainMoveType(m) ==
    CASE m[1] = "MovePrimitive" ->
           m[2] \in {"Bool", "U8", "U64", "U128", "Address", "Signer"}
      [] m[1] = "Struct" -> is_u256(m[2])
      [] m[1] = "Vector" -> PlainMoveType(m[2])
      [] OTHER -> FALSE

\* every parameter and return type of the function is such a type
PlainFunction(f) ==
    /\ \A i \in 1..Len(f.parameter_types) : PlainMoveType(f.parameter_types[i])
    /\ \A i \in 1..Len(f.return_types) : PlainMoveType(f.return_types[i])

\* C14: for every source type S built from bool, u8, u64, u128, address,
\* signer, the 256 bit integer struct and vectors of these,
\* translate_from_move(S) returns and is compatible with S; and the default
\* signature of a function whose types are all of that form is compatible
\* with that function.
C14_DefaultSelfCompatible ==
    /\ (origin = "translate" /\ PlainMoveType(source_ty)) => IsRet(held)
    /\ (origin = "translate" /\ last_op = "check_type"
           /\ result[1] = source_ty /\ PlainMoveType(source_ty)) =>
           result[2] = Ret(TRUE)
    /\ (origin = "default" /\ PlainFunction(source_fun)) => IsRet(held_sig)
    /\ (last_op = "check_default" /\ PlainFunction(source_fun)) =>
           result[2] = Ret(TRUE)

\* the default signature of a function from a 256 bit integer and a vector
\* of vectors of u128 to a 256 bit integer has been checked against the
\* function and found compatible
C14_Witness ==
    /\ origin = "default"
    /\ last_op = "check_default"
    /\ source_fun = FunctionEnv(F_name,
                                <<Struct("U256"), Vector(Vector(U128))>>,
                                <<Struct("U256")>>)
    /\ held_sig[2].para_types =
           <<<<Primitive(Uint(256)), Memory>>,
             <<DynamicArray(DynamicArray(Primitive(Uint(128)))), Memory>>>>
    /\ result[2] = Ret(TRUE)

====
